---- MODULE Spec2Model ----
(***************************************************************************)
(* The task API of api/src/server.ts.  The file holds two builds of the    *)
(* Express server over one in-memory array `tasks`:                        *)
(*   - the plain build (lines 1-114): bare JSON responses, POST checks     *)
(*     only the title, PUT spreads the request body over the task;         *)
(*   - the enveloped build (lines 116-394): {success, data, message}       *)
(*     responses, validation of title/status/priority, GET /tasks/:id,     *)
(*     and a global error handler.                                         *)
(* `variant` says which build is running.  One action is one request       *)
(* handled to completion (Node runs each synchronous handler atomically).  *)
(***************************************************************************)
EXTENDS Integers, Sequences, FiniteSets, TLC

VARIABLES
    variant,    \* the build that is running: "plain" or "enveloped"
    tasks,      \* the in-memory array of tasks
    now,        \* the last instant read from the clock (new Date())
    issued,     \* how many values randomUUID has returned
    req,        \* the request handled last
    res,        \* the response sent to it
    deleted,    \* history: the ids of the tasks DELETE has removed
    remaining,  \* requests the run may still handle
    handlers,   \* LoopSpec: the requests received, each with the position
                \* of its handler and the index its findIndex gave
    page,       \* the variant of pages/Dashboard.tsx that is mounted
    db,         \* the table public.tasks, its clock and its last statement
    ui,         \* the React state of the Dashboard
    calls       \* the supabase requests of the Dashboard, in flight or done

\* The state of the task API of api/src/server.ts.
serverVars ==
    <<variant, tasks, now, issued, req, res, deleted, remaining, handlers>>

\* The state of the Dashboard and of the table it reads and writes.
dashVars == <<page, db, ui, calls>>

vars == <<serverVars, dashVars>>

\* ------------------------------------------------------------------ bounds
\* Requests handled in one run of Spec, whose bodies are CommonBodies.
MaxRequests == 2
\* Requests handled in one run of ProbeSpec: the last may carry any body of
\* Bodies, the ones before it carry CommonBodies.
MaxProbes == 1
\* Requests received in one run of LoopSpec.
MaxHandlers == 2
\* Statements run in one run of TableSpec.
MaxStatements == 3
\* Requests to insert, update or delete sent in one run of DashSpec.
MaxMutations == 2
\* Tasks in a list the Dashboard filters in FilterSpec.
MaxTasks == 2

\* ------------------------------------------------------- JavaScript values
\* A JSON value of a request body or a task field: its typeof tag and, for a
\* string, its characters; for a number, its value.
Undefined == [type |-> "undefined", str |-> <<>>, num |-> 0]
Null == [type |-> "null", str |-> <<>>, num |-> 0]
Num(n) == [type |-> "number", str |-> <<>>, num |-> n]
Str(s) == [type |-> "string", str |-> s, num |-> 0]

\* typeof v === "string"
IsString(v) == v.type = "string"

\* !v : undefined, null, 0 and "" are falsy.
Falsy(v) ==
    \/ v.type \in {"undefined", "null"}
    \/ v.type = "number" /\ v.num = 0
    \/ v.type = "string" /\ v.str = <<>>

\* v ?? d : d when v is null or undefined.
Nullish(v) == v.type \in {"undefined", "null"}

\* A destructuring default that never applies.
DefaultAs(v, d) == v

\* A destructuring default (x = d): d only when the key is undefined.
Default(v, d) == IF v.type = "undefined" THEN d ELSE v

WhiteSpace == {" "}

RECURSIVE TrimStart(_)
TrimStart(s) ==
    IF s # <<>> /\ Head(s) \in WhiteSpace THEN TrimStart(Tail(s)) ELSE s

RECURSIVE TrimEnd(_)
TrimEnd(s) ==
    IF s # <<>> /\ s[Len(s)] \in WhiteSpace
    THEN TrimEnd(SubSeq(s, 1, Len(s) - 1))
    ELSE s

\* String.prototype.trim on the characters of a string.
TrimChars(s) == TrimEnd(TrimStart(s))

\* A trim of the leading whitespace only.
TrimAs(v) == Str(TrimStart(v.str))

Trim(v) == Str(TrimChars(v.str))

Digits == <<"0", "1", "2", "3", "4", "5", "6", "7", "8", "9">>

Digit(n) == Digits[n + 1]

DigitValue(c) == CHOOSE n \in 0..9 : Digits[n + 1] = c

\* new Date(t).toISOString(): a fixed-width text of the instant t, so that
\* the order of the texts is the order of the instants.
ToISOString(t) == Str(<<Digit(t \div 10), Digit(t % 10)>>)

\* Date.parse of a text ToISOString wrote.
ParseISO(v) == 10 * DigitValue(v.str[1]) + DigitValue(v.str[2])

\* The n-th value randomUUID returns: no two calls return the same value.
RandomUUID(n) == Str(<<"u", Digit(n)>>)

\* The ids a client may ask for: those given out so far and one that was not.
RequestIds(n) == {RandomUUID(i) : i \in 1..(n + 1)}

\* ------------------------------------------------------------------- tasks
PENDING == Str(<<"p", "e", "n", "d", "i", "n", "g">>)
IN_PROGRESS == Str(<<"i", "n", "_", "p", "r", "o", "g", "r", "e", "s", "s">>)
COMPLETED == Str(<<"c", "o", "m", "p", "l", "e", "t", "e", "d">>)
LOW == Str(<<"l", "o", "w">>)
MEDIUM == Str(<<"m", "e", "d", "i", "u", "m">>)
HIGH == Str(<<"h", "i", "g", "h">>)

validStatuses == {PENDING, IN_PROGRESS, COMPLETED}
validPriorities == {LOW, MEDIUM, HIGH}

Task(id, title, description, status, priority, createdAt, updatedAt) ==
    [id |-> id, title |-> title, description |-> description,
     status |-> status, priority |-> priority,
     createdAt |-> createdAt, updatedAt |-> updatedAt]

\* The two seeded tasks; t1..t4 are the four readings of the clock, in the
\* order the array literal makes them.
SeedTitle1 ==
    Str(<<"P", "l", "a", "n", "e", "j", "a", "r", " ", "s", "p", "r",
          "i", "n", "t">>)
SeedDescription1 ==
    Str(<<"L", "i", "s", "t", "a", "r", " ", "t", "a", "r", "e", "f",
          "a", "s", " ", "p", "r", "i", "n", "c", "i", "p", "a", "i",
          "s", " ", "d", "a", " ", "s", "e", "m", "a", "n", "a">>)
SeedTitle2 ==
    Str(<<"C", "o", "n", "f", "i", "g", "u", "r", "a", "r", " ", "m",
          "o", "n", "i", "t", "o", "r", "a", "m", "e", "n", "t", "o">>)
SeedDescription2 ==
    Str(<<"C", "r", "i", "a", "r", " ", "d", "a", "s", "h", "b", "o",
          "a", "r", "d", " ", "n", "o", " ", "G", "r", "a", "f", "a",
          "n", "a">>)

\* Seeds whose createdAt is read from the clock after their updatedAt.
SeedTasksAs(t1, t2, t3, t4) ==
    << Task(RandomUUID(1), SeedTitle1, SeedDescription1, IN_PROGRESS, HIGH,
            ToISOString(t2), ToISOString(t1)),
       Task(RandomUUID(2), SeedTitle2, SeedDescription2, PENDING, MEDIUM,
            ToISOString(t4), ToISOString(t3)) >>

SeedTasks(t1, t2, t3, t4) ==
    << Task(RandomUUID(1), SeedTitle1, SeedDescription1, IN_PROGRESS, HIGH,
            ToISOString(t1), ToISOString(t2)),
       Task(RandomUUID(2), SeedTitle2, SeedDescription2, PENDING, MEDIUM,
            ToISOString(t3), ToISOString(t4)) >>

\* ---------------------------------------------------------------- requests
\* The values a client may send under each key of a JSON body; Undefined is
\* the key left out.
TitleValues ==
    {Undefined, Num(7), Str(<<>>), Str(<<" ">>), Str(<<" ", "a", " ">>)}
DescriptionValues ==
    {Undefined, Null, Num(7), Str(<<" ">>), Str(<<" ", "d", " ">>)}
StatusValues == {Undefined, Null, Str(<<"d", "o", "n", "e">>), COMPLETED}
PriorityValues == {Undefined, Null, Str(<<"t", "o", "p">>), LOW}
IdValues == {Undefined, RandomUUID(1)}
CreatedAtValues == {Undefined, ToISOString(99)}

EmptyBody ==
    [title |-> Undefined, description |-> Undefined, status |-> Undefined,
     priority |-> Undefined, id |-> Undefined, createdAt |-> Undefined]

\* Every body over the four keys the handlers name.
PostBodies ==
    {[EmptyBody EXCEPT !.title = t, !.description = d, !.status = st,
                       !.priority = p] :
        t \in TitleValues, d \in DescriptionValues, st \in StatusValues,
        p \in PriorityValues}

\* Bodies that also carry keys a client has no business sending.
ForgedBodies ==
    {[EmptyBody EXCEPT !.id = i, !.createdAt = c, !.title = t, !.status = st] :
        i \in IdValues, c \in CreatedAtValues,
        t \in {Undefined, Str(<<" ", "a", " ">>)},
        st \in {Undefined, COMPLETED}}

Bodies == PostBodies \cup ForgedBodies

\* The bodies of the long runs: nothing, one field, every field, a field out
\* of its enumeration, a forged id.
CommonBodies ==
    {EmptyBody,
     [EmptyBody EXCEPT !.title = Str(<<" ", "a", " ">>)],
     [EmptyBody EXCEPT !.status = COMPLETED],
     [EmptyBody EXCEPT !.title = Str(<<" ", "a", " ">>),
                       !.description = Str(<<" ", "d", " ">>),
                       !.status = COMPLETED, !.priority = LOW],
     [EmptyBody EXCEPT !.status = Str(<<"d", "o", "n", "e">>)],
     [EmptyBody EXCEPT !.id = RandomUUID(1), !.createdAt = ToISOString(99)]}

\* The unmatched-route handler reads nothing of the request.
PatchBodies == {EmptyBody, [EmptyBody EXCEPT !.status = COMPLETED]}

Request(method, id, body) == [method |-> method, id |-> id, body |-> body]

NoRequest == Request("", Undefined, EmptyBody)

\* A response: the HTTP status and the JSON body.  `envelope` says whether the
\* body is {success, data?, message?} (then `success` is its field) or, in the
\* plain build, the bare task, array or {message}.  `data` holds the task(s)
\* sent, `message` the message sent ("" when the key is left out).
Response(status, envelope, success, data, message) ==
    [status |-> status, envelope |-> envelope, success |-> success,
     data |-> data, message |-> message]

NoResponse == Response(0, FALSE, FALSE, <<>>, "")

Enveloped(status, success, data, message) ==
    Response(status, TRUE, success, data, message)

Plain(status, data, message) == Response(status, FALSE, FALSE, data, message)

\* A findIndex that gives 0 (the first element) where none matches.
FindIndexAs(ts, id) ==
    IF \E i \in 1..Len(ts) : ts[i].id = id
    THEN (CHOOSE i \in 1..Len(ts) :
            /\ ts[i].id = id
            /\ \A j \in 1..(i - 1) : ts[j].id # id) - 1
    ELSE 0

\* ------------------------------------------------------------ array helpers
\* Array.prototype.findIndex with (task) => task.id === id: the first index
\* (from 0) of a task with that id, or -1.
FindIndex(ts, id) ==
    IF \E i \in 1..Len(ts) : ts[i].id = id
    THEN (CHOOSE i \in 1..Len(ts) :
            /\ ts[i].id = id
            /\ \A j \in 1..(i - 1) : ts[j].id # id) - 1
    ELSE -1

\* An unshift that drops the task.
UnshiftAs(ts, task) == ts

\* tasks.unshift(task)
Unshift(ts, task) == <<task>> \o ts

\* A splice without its count: tasks.splice(index) removes the element at
\* index and every element after it.
SpliceRest(ts, index) == SubSeq(ts, 1, index)

\* A splice that removes nothing.
SpliceAs(ts, index) == ts

\* tasks.splice(index, 1): the array without the element at index (from 0).
Splice(ts, index) == SubSeq(ts, 1, index) \o SubSeq(ts, index + 2, Len(ts))

\* The instants a reading of the clock may give after the reading `t`: the
\* same instant or a later one (only the order of instants is observable).
Later(t) == {t, t + 1}

\* A title test without the trim: a title of blanks passes.
CreateTitleRejectedAs(title) == Falsy(title) \/ ~IsString(title)

\* ------------------------------------------------- enveloped build: pieces
\* POST: !title || typeof title !== "string" || title.trim() === ""
CreateTitleRejected(title) ==
    Falsy(title) \/ ~IsString(title) \/ Trim(title) = Str(<<>>)

\* A status test that lets null through.
CreateStatusRejectedAs(status) ==
    ~Nullish(status) /\ status \notin validStatuses

\* POST: !validStatuses.includes(status), status defaulted to "pending"
CreateStatusRejected(status) == status \notin validStatuses

\* POST: !validPriorities.includes(priority), priority defaulted to "medium"
CreatePriorityRejected(priority) == priority \notin validPriorities

\* v.trim() throws a TypeError unless v is a string (its callers only pass
\* values that are not undefined).
TrimThrows(v) == ~IsString(v)

\* v?.trim() throws a TypeError when v is neither nullish nor a string.
OptionalTrimThrows(v) == ~Nullish(v) /\ ~IsString(v)

\* v?.trim(): undefined for a nullish v.
OptionalTrim(v) == IF Nullish(v) THEN Undefined ELSE Trim(v)

\* v ?? d
Coalesce(v, d) == IF Nullish(v) THEN d ELSE v

\* A creation that gives every task the id of the first seed, not the id
\* randomUUID gave.
NewTaskAs(id, title, description, status, priority, t) ==
    Task(RandomUUID(1), Trim(title), Trim(description), status, priority,
         ToISOString(t), ToISOString(t))

\* POST: the task built at `t` with the id randomUUID gave.
NewTask(id, title, description, status, priority, t) ==
    Task(id, Trim(title), Trim(description), status, priority,
         ToISOString(t), ToISOString(t))

\* PUT: title !== undefined &&
\*      (typeof title !== "string" || title.trim() === "")
UpdateTitleRejected(title) ==
    title # Undefined /\ (~IsString(title) \/ Trim(title) = Str(<<>>))

\* PUT: status !== undefined && !validStatuses.includes(status)
UpdateStatusRejected(status) ==
    status # Undefined /\ status \notin validStatuses

\* PUT: priority !== undefined && !validPriorities.includes(priority)
UpdatePriorityRejected(priority) ==
    priority # Undefined /\ priority \notin validPriorities

\* An update that writes every field of the body, the absent ones as "".
UpdatedTaskAs(currentTask, body, t) ==
    Task(currentTask.id,
         Coalesce(OptionalTrim(body.title), currentTask.title),
         Coalesce(OptionalTrim(body.description), Str(<<>>)),
         Coalesce(body.status, currentTask.status),
         Coalesce(body.priority, currentTask.priority),
         currentTask.createdAt,
         ToISOString(t))

\* PUT: { ...currentTask, title: title?.trim() ?? currentTask.title, ... ,
\*        updatedAt: new Date().toISOString() }
UpdatedTask(currentTask, body, t) ==
    Task(currentTask.id,
         Coalesce(OptionalTrim(body.title), currentTask.title),
         Coalesce(OptionalTrim(body.description), currentTask.description),
         Coalesce(body.status, currentTask.status),
         Coalesce(body.priority, currentTask.priority),
         currentTask.createdAt,
         ToISOString(t))

\* ----------------------------------------------------- plain build: pieces
\* POST: !title || typeof title !== "string"
PlainCreateTitleRejected(title) == Falsy(title) \/ ~IsString(title)

\* POST: the task built with the id randomUUID gave; createdAt and updatedAt
\* are two readings of the clock.
PlainNewTask(id, title, description, status, priority, t1, t2) ==
    Task(id, title, description, status, priority,
         ToISOString(t1), ToISOString(t2))

\* PUT: { ...tasks[taskIndex], ...req.body, updatedAt: ... }: every key the
\* body carries replaces the task's.
PlainUpdatedTask(currentTask, body, t) ==
    Task(Default(body.id, currentTask.id),
         Default(body.title, currentTask.title),
         Default(body.description, currentTask.description),
         Default(body.status, currentTask.status),
         Default(body.priority, currentTask.priority),
         Default(body.createdAt, currentTask.createdAt),
         ToISOString(t))

\* ----------------------------------------------------------------- actions
\* The request is answered `r`; the store and the clock stay as they are.
Answer(request, r) ==
    /\ req' = request
    /\ res' = r
    /\ remaining' = remaining - 1
    /\ UNCHANGED <<variant, tasks, now, issued, deleted>>

NotFound ==
    IF variant = "enveloped"
    THEN Enveloped(404, FALSE, <<>>, "Tarefa não encontrada")
    ELSE Plain(404, <<>>, "Tarefa não encontrada")

\* app.use((_req, res) => res.status(404)...): no route matched.
RouteNotFound ==
    IF variant = "enveloped"
    THEN Enveloped(404, FALSE, <<>>, "Rota não encontrada")
    ELSE Plain(404, <<>>, "Rota não encontrada")

\* An error handler that answers with the message of the error.
InternalErrorAs ==
    Enveloped(500, FALSE, <<>>, "description.trim is not a function")

\* The global error handler of the enveloped build.
InternalError == Enveloped(500, FALSE, <<>>, "Erro interno do servidor")

\* POST /tasks, enveloped build.
PostTasks(body) ==
    LET request == Request("POST", Undefined, body)
        title == body.title
        description == Default(body.description, Str(<<>>))
        status == Default(body.status, PENDING)
        priority == Default(body.priority, MEDIUM)
    IN  /\ variant = "enveloped"
        /\ remaining > 0
        /\ IF CreateTitleRejected(title)
           THEN Answer(request, Enveloped(400, FALSE, <<>>,
                    "Título é obrigatório e deve ser uma string não vazia"))
           ELSE IF CreateStatusRejected(status)
           THEN Answer(request, Enveloped(400, FALSE, <<>>,
                    "Status inválido. Use: pending, in_progress, completed"))
           ELSE IF CreatePriorityRejected(priority)
           THEN Answer(request, Enveloped(400, FALSE, <<>>,
                    "Prioridade inválida. Use: low, medium, high"))
           ELSE \E t \in Later(now) :
                /\ now' = t
                /\ issued' = issued + 1
                /\ req' = request
                /\ remaining' = remaining - 1
                /\ UNCHANGED <<variant, deleted>>
                /\ IF TrimThrows(description)
                   THEN /\ res' = InternalError
                        /\ UNCHANGED tasks
                   ELSE LET newTask == NewTask(RandomUUID(issued + 1), title,
                                               description, status, priority, t)
                        IN  /\ tasks' = Unshift(tasks, newTask)
                            /\ res' = Enveloped(201, TRUE, <<newTask>>,
                                          "Tarefa criada com sucesso")

\* PUT /tasks/:id, enveloped build, from the test of the index findIndex gave
\* to the response.
PutTaskAt(id, body, taskIndex) ==
    LET request == Request("PUT", id, body)
    IN  /\ variant = "enveloped"
        /\ remaining > 0
        /\ IF taskIndex = -1
           THEN Answer(request, NotFound)
           ELSE IF UpdateTitleRejected(body.title)
           THEN Answer(request, Enveloped(400, FALSE, <<>>,
                    "Título deve ser uma string não vazia"))
           ELSE IF UpdateStatusRejected(body.status)
           THEN Answer(request, Enveloped(400, FALSE, <<>>,
                    "Status inválido. Use: pending, in_progress, completed"))
           ELSE IF UpdatePriorityRejected(body.priority)
           THEN Answer(request, Enveloped(400, FALSE, <<>>,
                    "Prioridade inválida. Use: low, medium, high"))
           ELSE IF OptionalTrimThrows(body.description)
           THEN Answer(request, InternalError)
           ELSE \E t \in Later(now) :
                LET updatedTask == UpdatedTask(tasks[taskIndex + 1], body, t)
                IN  /\ now' = t
                    /\ tasks' = [tasks EXCEPT ![taskIndex + 1] = updatedTask]
                    /\ res' = Enveloped(200, TRUE, <<updatedTask>>,
                                  "Tarefa atualizada com sucesso")
                    /\ req' = request
                    /\ remaining' = remaining - 1
                    /\ UNCHANGED <<variant, issued, deleted>>

\* PUT /tasks/:id, enveloped build: findIndex and the rest of the handler run
\* as one step.
PutTask(id, body) == PutTaskAt(id, body, FindIndex(tasks, id))

\* DELETE /tasks/:id, enveloped build, from the test of the index findIndex
\* gave to the response.
DeleteTaskAt(id, taskIndex) ==
    LET request == Request("DELETE", id, EmptyBody)
    IN  /\ variant = "enveloped"
        /\ remaining > 0
        /\ IF taskIndex = -1
           THEN Answer(request, NotFound)
           ELSE LET removed == tasks[taskIndex + 1]
                IN  /\ tasks' = Splice(tasks, taskIndex)
                    /\ res' = Enveloped(200, TRUE, <<removed>>,
                                  "Tarefa removida com sucesso")
                    /\ req' = request
                    /\ remaining' = remaining - 1
                    /\ deleted' = deleted \cup {id}
                    /\ UNCHANGED <<variant, now, issued>>

\* DELETE /tasks/:id, enveloped build: findIndex and the rest of the handler
\* run as one step.
DeleteTask(id) == DeleteTaskAt(id, FindIndex(tasks, id))

\* A GET /tasks/:id that finds no task.
GetTaskAs(id) ==
    /\ variant = "enveloped"
    /\ remaining > 0
    /\ Answer(Request("GET", id, EmptyBody), NotFound)

\* GET /tasks/:id, enveloped build.
GetTask(id) ==
    LET request == Request("GET", id, EmptyBody)
        found == {i \in 1..Len(tasks) : tasks[i].id = id}
    IN  /\ variant = "enveloped"
        /\ remaining > 0
        /\ IF found = {}
           THEN Answer(request, NotFound)
           ELSE LET task == tasks[CHOOSE i \in found : \A j \in found : i <= j]
                IN  Answer(request, Enveloped(200, TRUE, <<task>>, ""))

\* GET /tasks, enveloped build.
GetTasks ==
    /\ variant = "enveloped"
    /\ remaining > 0
    /\ Answer(Request("GET", Undefined, EmptyBody),
              Enveloped(200, TRUE, tasks, ""))

\* POST /tasks, plain build.
PlainPostTasks(body) ==
    LET request == Request("POST", Undefined, body)
        title == body.title
        description == Default(body.description, Str(<<>>))
        status == Default(body.status, PENDING)
        priority == Default(body.priority, MEDIUM)
    IN  /\ variant = "plain"
        /\ remaining > 0
        /\ IF PlainCreateTitleRejected(title)
           THEN Answer(request, Plain(400, <<>>, "Título é obrigatório"))
           ELSE \E t1 \in Later(now) : \E t2 \in Later(t1) :
                LET newTask == PlainNewTask(RandomUUID(issued + 1), title,
                                   description, status, priority, t1, t2)
                IN  /\ now' = t2
                    /\ issued' = issued + 1
                    /\ tasks' = Unshift(tasks, newTask)
                    /\ res' = Plain(201, <<newTask>>, "")
                    /\ req' = request
                    /\ remaining' = remaining - 1
                    /\ UNCHANGED <<variant, deleted>>

\* PUT /tasks/:id, plain build.
PlainPutTask(id, body) ==
    LET request == Request("PUT", id, body)
        taskIndex == FindIndex(tasks, id)
    IN  /\ variant = "plain"
        /\ remaining > 0
        /\ IF taskIndex = -1
           THEN Answer(request, NotFound)
           ELSE \E t \in Later(now) :
                LET updatedTask ==
                        PlainUpdatedTask(tasks[taskIndex + 1], body, t)
                IN  /\ now' = t
                    /\ tasks' = [tasks EXCEPT ![taskIndex + 1] = updatedTask]
                    /\ res' = Plain(200, <<updatedTask>>, "")
                    /\ req' = request
                    /\ remaining' = remaining - 1
                    /\ UNCHANGED <<variant, issued, deleted>>

\* DELETE /tasks/:id, plain build.
PlainDeleteTask(id) ==
    LET request == Request("DELETE", id, EmptyBody)
        taskIndex == FindIndex(tasks, id)
    IN  /\ variant = "plain"
        /\ remaining > 0
        /\ IF taskIndex = -1
           THEN Answer(request, NotFound)
           ELSE LET removed == tasks[taskIndex + 1]
                IN  /\ tasks' = Splice(tasks, taskIndex)
                    /\ res' = Plain(200, <<removed>>, "")
                    /\ req' = request
                    /\ remaining' = remaining - 1
                    /\ deleted' = deleted \cup {id}
                    /\ UNCHANGED <<variant, now, issued>>

\* GET /tasks, plain build.
PlainGetTasks ==
    /\ variant = "plain"
    /\ remaining > 0
    /\ Answer(Request("GET", Undefined, EmptyBody), Plain(200, tasks, ""))

\* GET /tasks/:id, plain build: no such route is registered.
PlainGetTask(id) ==
    /\ variant = "plain"
    /\ remaining > 0
    /\ Answer(Request("GET", id, EmptyBody), RouteNotFound)

\* A PATCH route registered beside PUT, merging the body onto the task.
PatchTaskAs(id, body) ==
    LET request == Request("PATCH", id, body)
        taskIndex == FindIndex(tasks, id)
    IN  /\ remaining > 0
        /\ IF taskIndex = -1
           THEN Answer(request, NotFound)
           ELSE \E t \in Later(now) :
                LET updatedTask == UpdatedTask(tasks[taskIndex + 1], body, t)
                IN  /\ now' = t
                    /\ tasks' = [tasks EXCEPT ![taskIndex + 1] = updatedTask]
                    /\ res' = IF variant = "enveloped"
                              THEN Enveloped(200, TRUE, <<updatedTask>>,
                                       "Tarefa atualizada com sucesso")
                              ELSE Plain(200, <<updatedTask>>, "")
                    /\ req' = request
                    /\ remaining' = remaining - 1
                    /\ UNCHANGED <<variant, issued, deleted>>

\* PATCH /tasks/:id, either build: no such route is registered.
PatchTask(id, body) ==
    /\ remaining > 0
    /\ Answer(Request("PATCH", id, body), RouteNotFound)

\* ------------------------------------------------- the table public.tasks
\* A row of public.tasks.  The text columns hold JavaScript values (Str or
\* Null), the timestamps are instants of the database clock.
Row(id, title, description, status, priority, created_at, updated_at) ==
    [id |-> id, title |-> title, description |-> description,
     status |-> status, priority |-> priority,
     created_at |-> created_at, updated_at |-> updated_at]

\* The payload of an insert or update: Undefined marks a column the payload
\* does not carry.
Payload(title, description, status, priority, created_at, updated_at) ==
    [title |-> title, description |-> description, status |-> status,
     priority |-> priority, created_at |-> created_at,
     updated_at |-> updated_at]

EmptyPayload ==
    Payload(Undefined, Undefined, Undefined, Undefined, Undefined, Undefined)

\* A statement the table has run: its kind, the id of its .eq("id", ...)
\* filter, its payload and whether it succeeded.
Statement(op, id, payload, ok) ==
    [op |-> op, id |-> id, payload |-> payload, ok |-> ok]

NoStatement == Statement("", Undefined, EmptyPayload, TRUE)

\* CREATE TABLE public.tasks: no rows; `issued` counts the values
\* gen_random_uuid() has returned, `updated` is the history of the ids an
\* UPDATE has written.
EmptyTable ==
    [rows |-> <<>>, now |-> 0, issued |-> 0, last |-> NoStatement,
     updated |-> {}]

\* ---------------------------------------------- the Dashboard: React state
\* useState({ title: "", description: "", status: "pending", ... })
EmptyForm ==
    [title |-> Str(<<>>), description |-> Str(<<>>), status |-> PENDING,
     priority |-> MEDIUM]

\* The value "all" of a filter.
ALL == Str(<<"a", "l", "l">>)

\* The state of the component when it mounts.  isEditDialogOpen is
\* isEditingOpen in the second variant; statusFilter and searchTerm exist in
\* the second variant only.  `toast` is the title of the toast shown last.
InitialState ==
    [tasks |-> <<>>, loading |-> TRUE, newTask |-> EmptyForm,
     editingTask |-> Null, isEditDialogOpen |-> FALSE,
     priorityFilter |-> ALL, statusFilter |-> ALL,
     searchTerm |-> Str(<<>>),
     toast |-> ""]

\* No Dashboard is mounted: the state the specifications of the server keep.
NoDashboard ==
    /\ page = "first"
    /\ db = EmptyTable
    /\ ui = InitialState
    /\ calls = <<>>

\* ----------------------------------------------------------- specification
\* The server as it starts: `builds` are the builds that may be running and
\* `n` the requests the run will handle.
Start(builds, n) ==
    /\ variant \in builds
    /\ \E t2 \in Later(0) : \E t3 \in Later(t2) : \E t4 \in Later(t3) :
            /\ tasks = SeedTasks(0, t2, t3, t4)
            /\ now = t4
    /\ issued = 2
    /\ deleted = {}
    /\ req = NoRequest
    /\ res = NoResponse
    /\ remaining = n
    /\ handlers = <<>>

Init == Start({"plain", "enveloped"}, MaxRequests) /\ NoDashboard

Next ==
    \/ \E body \in CommonBodies : PostTasks(body)
            /\ UNCHANGED <<handlers, dashVars>>
    \/ \E id \in RequestIds(issued) : \E body \in CommonBodies :
            PutTask(id, body)
            /\ UNCHANGED <<handlers, dashVars>>
    \/ \E id \in RequestIds(issued) : DeleteTask(id)
            /\ UNCHANGED <<handlers, dashVars>>
    \/ \E id \in RequestIds(issued) : GetTask(id)
            /\ UNCHANGED <<handlers, dashVars>>
    \/ GetTasks
            /\ UNCHANGED <<handlers, dashVars>>
    \/ \E body \in CommonBodies : PlainPostTasks(body)
            /\ UNCHANGED <<handlers, dashVars>>
    \/ \E id \in RequestIds(issued) : \E body \in CommonBodies :
            PlainPutTask(id, body)
            /\ UNCHANGED <<handlers, dashVars>>
    \/ \E id \in RequestIds(issued) : PlainDeleteTask(id)
            /\ UNCHANGED <<handlers, dashVars>>
    \/ \E id \in RequestIds(issued) : PlainGetTask(id)
            /\ UNCHANGED <<handlers, dashVars>>
    \/ PlainGetTasks
            /\ UNCHANGED <<handlers, dashVars>>
    \/ \E id \in RequestIds(issued) : \E body \in PatchBodies :
            PatchTask(id, body)
            /\ UNCHANGED <<handlers, dashVars>>

Spec == Init /\ [][Next]_vars

\* The bodies of a request of ProbeSpec when `n` requests remain.
ProbeBodies(n, last) == IF n = 1 THEN last ELSE CommonBodies

ProbeInit == Start({"plain", "enveloped"}, MaxProbes) /\ NoDashboard

ProbeNext ==
    \/ \E body \in ProbeBodies(remaining, PostBodies) : PostTasks(body)
            /\ UNCHANGED <<handlers, dashVars>>
    \/ \E id \in RequestIds(issued) :
       \E body \in ProbeBodies(remaining, Bodies) : PutTask(id, body)
            /\ UNCHANGED <<handlers, dashVars>>
    \/ \E id \in RequestIds(issued) : DeleteTask(id)
            /\ UNCHANGED <<handlers, dashVars>>
    \/ \E id \in RequestIds(issued) : GetTask(id)
            /\ UNCHANGED <<handlers, dashVars>>
    \/ GetTasks
            /\ UNCHANGED <<handlers, dashVars>>
    \/ \E body \in ProbeBodies(remaining, PostBodies) : PlainPostTasks(body)
            /\ UNCHANGED <<handlers, dashVars>>
    \/ \E id \in RequestIds(issued) :
       \E body \in ProbeBodies(remaining, Bodies) : PlainPutTask(id, body)
            /\ UNCHANGED <<handlers, dashVars>>
    \/ \E id \in RequestIds(issued) : PlainDeleteTask(id)
            /\ UNCHANGED <<handlers, dashVars>>
    \/ \E id \in RequestIds(issued) : PlainGetTask(id)
            /\ UNCHANGED <<handlers, dashVars>>
    \/ PlainGetTasks
            /\ UNCHANGED <<handlers, dashVars>>
    \/ \E id \in RequestIds(issued) : \E body \in PatchBodies :
            PatchTask(id, body)
            /\ UNCHANGED <<handlers, dashVars>>

ProbeSpec == ProbeInit /\ [][ProbeNext]_vars

\* ------------------------------------------------- concurrent requests
\* Concurrent requests, enveloped build.  Requests arrive at any time and wait
\* (express.json() reads their bodies asynchronously); a PUT or DELETE handler
\* is taken in two steps, findIndex and everything after it, so that the
\* steps of two handlers could interleave if the scheduling allowed it.

\* The bodies of the requests of LoopSpec.
LoopBodies ==
    { [EmptyBody EXCEPT !.title = Str(<<" ", "a", " ">>)],
      [EmptyBody EXCEPT !.status = COMPLETED] }

\* The ids the requests of LoopSpec name: the seeds' and the first POST's.
LoopIds == RequestIds(2)

Handler(request) == [request |-> request, pc |-> "received", taskIndex |-> -1]

\* A scheduling that lets a handler start while another is between its
\* findIndex and its end.
CallStackEmptyAs == TRUE

\* No handler is between its findIndex and its end.  A handler is a
\* synchronous function without await or callback: once Node calls it, it
\* runs to its end before the event loop calls another.
CallStackEmpty == \A h \in 1..Len(handlers) : handlers[h].pc # "found"

\* A request arrives.
Receive(request) ==
    /\ Len(handlers) < MaxHandlers
    /\ handlers' = Append(handlers, Handler(request))
    /\ UNCHANGED <<variant, tasks, now, issued, req, res, deleted, remaining>>
    /\ UNCHANGED dashVars

\* POST /tasks: the whole handler.
HandlePost(h) ==
    /\ handlers[h].pc = "received"
    /\ handlers[h].request.method = "POST"
    /\ CallStackEmpty
    /\ PostTasks(handlers[h].request.body)
    /\ handlers' = [handlers EXCEPT ![h].pc = "done"]
    /\ UNCHANGED dashVars

\* PUT or DELETE /tasks/:id: const taskIndex = tasks.findIndex(...)
Find(h) ==
    /\ handlers[h].pc = "received"
    /\ handlers[h].request.method \in {"PUT", "DELETE"}
    /\ CallStackEmpty
    /\ handlers' =
            [handlers EXCEPT
                ![h].pc = "found",
                ![h].taskIndex = FindIndex(tasks, handlers[h].request.id)]
    /\ UNCHANGED <<variant, tasks, now, issued, req, res, deleted, remaining>>
    /\ UNCHANGED dashVars

\* PUT or DELETE /tasks/:id: the handler after findIndex, with the index it
\* found.
Finish(h) ==
    /\ handlers[h].pc = "found"
    /\ IF handlers[h].request.method = "PUT"
       THEN PutTaskAt(handlers[h].request.id, handlers[h].request.body,
                      handlers[h].taskIndex)
       ELSE DeleteTaskAt(handlers[h].request.id, handlers[h].taskIndex)
    /\ handlers' = [handlers EXCEPT ![h].pc = "done"]
    /\ UNCHANGED dashVars

LoopInit == Start({"enveloped"}, MaxHandlers) /\ NoDashboard

LoopNext ==
    \/ \E body \in LoopBodies : Receive(Request("POST", Undefined, body))
    \/ \E id \in LoopIds : \E body \in LoopBodies :
            Receive(Request("PUT", id, body))
    \/ \E id \in LoopIds : Receive(Request("DELETE", id, EmptyBody))
    \/ \E h \in 1..Len(handlers) : HandlePost(h)
    \/ \E h \in 1..Len(handlers) : Find(h)
    \/ \E h \in 1..Len(handlers) : Finish(h)

LoopSpec == LoopInit /\ [][LoopNext]_vars

\* --------------------------------------------- the table: its statements
\* The server's variables a statement of the table or a step of the
\* Dashboard leaves alone (`remaining` bounds their runs too).
apiVars == <<variant, tasks, now, issued, req, res, deleted, handlers>>

\* NOT NULL and CHECK of CREATE TABLE public.tasks.
Satisfied(row) ==
    /\ row.title # Null
    /\ row.status \in validStatuses
    /\ row.priority \in validPriorities

\* The row an INSERT builds at `t`: a column the payload does not carry takes
\* its DEFAULT, or NULL where it has none.
Inserted(payload, id, t) ==
    Row(id,
        Default(payload.title, Null),
        Default(payload.description, Null),
        Default(payload.status, PENDING),
        Default(payload.priority, MEDIUM),
        Default(payload.created_at, Num(t)).num,
        Default(payload.updated_at, Num(t)).num)

\* The row an UPDATE proposes: the columns of the payload over the old row.
Proposed(row, payload) ==
    Row(row.id,
        Default(payload.title, row.title),
        Default(payload.description, row.description),
        Default(payload.status, row.status),
        Default(payload.priority, row.priority),
        Default(payload.created_at, Num(row.created_at)).num,
        Default(payload.updated_at, Num(row.updated_at)).num)

\* A trigger that returns NEW as the statement proposed it.
update_updated_at_column_as(new, t) == new

\* public.update_updated_at_column(), the BEFORE UPDATE trigger of every
\* row: NEW.updated_at = now(); RETURN NEW.
update_updated_at_column(new, t) == [new EXCEPT !.updated_at = t]

\* supabase.from("tasks").insert([payload]), run at `t`.
Insert(d, payload, t) ==
    LET new == Inserted(payload, RandomUUID(d.issued + 1), t)
    IN  IF Satisfied(new)
        THEN [d EXCEPT !.rows = Append(@, new),
                       !.now = t,
                       !.issued = @ + 1,
                       !.last = Statement("insert", Undefined, payload, TRUE)]
        ELSE [d EXCEPT !.now = t,
                       !.last = Statement("insert", Undefined, payload, FALSE)]

\* supabase.from("tasks").update(payload).eq("id", id), run at `t`: the
\* trigger fires for each row the filter matches; no row is no error.
Update(d, id, payload, t) ==
    LET hit == {i \in 1..Len(d.rows) : d.rows[i].id = id}
        new(i) == update_updated_at_column(Proposed(d.rows[i], payload), t)
    IN  IF \A i \in hit : Satisfied(new(i))
        THEN [d EXCEPT
                !.rows = [i \in 1..Len(d.rows) |->
                            IF i \in hit THEN new(i) ELSE d.rows[i]],
                !.now = t,
                !.updated = IF hit = {} THEN @ ELSE @ \cup {id},
                !.last = Statement("update", id, payload, TRUE)]
        ELSE [d EXCEPT !.now = t,
                       !.last = Statement("update", id, payload, FALSE)]

\* supabase.from("tasks").delete().eq("id", id), run at `t`.
Delete(d, id, t) ==
    LET kept(row) == row.id # id
    IN  [d EXCEPT !.rows = SelectSeq(@, kept),
                  !.now = t,
                  !.last = Statement("delete", id, EmptyPayload, TRUE)]

\* The sequences of all the rows in descending order of created_at: what
\* .select("*").order("created_at", { ascending: false }) may return (rows
\* of one created_at come in any order).
Selected(d) ==
    LET n == Len(d.rows)
        orders == {f \in [1..n -> 1..n] :
                    /\ \A i, j \in 1..n : i # j => f[i] # f[j]
                    /\ \A i, j \in 1..n :
                            i < j => d.rows[f[i]].created_at
                                        >= d.rows[f[j]].created_at}
    IN  {[i \in 1..n |-> d.rows[f[i]]] : f \in orders}

\* ------------------------------------------- the table: direct statements
\* The statements any client may send to the table through its REST
\* interface (the policies allow every read, insert, update and delete).
InsertPayloads ==
    {Payload(title, Undefined, status, Undefined, Undefined, updated_at) :
        title \in {Undefined, Str(<<"a">>)},
        status \in {Undefined, Str(<<"d", "o", "n", "e">>)},
        updated_at \in {Undefined, Num(9)}}

UpdatePayloads ==
    {Payload(title, Undefined, status, Undefined, created_at, updated_at) :
        title \in {Undefined, Str(<<>>)},
        status \in {Undefined, COMPLETED, Null},
        created_at \in {Undefined, Num(9)},
        updated_at \in {Undefined, Num(0), Num(9)}}

\* The ids a statement may name: those of the rows inserted so far and one
\* more.
RowIds(d) == {RandomUUID(i) : i \in 1..(d.issued + 1)}

TableInsert(payload) ==
    /\ remaining > 0
    /\ remaining' = remaining - 1
    /\ \E t \in Later(db.now) : db' = Insert(db, payload, t)
    /\ UNCHANGED <<apiVars, page, ui, calls>>

TableUpdate(id, payload) ==
    /\ remaining > 0
    /\ remaining' = remaining - 1
    /\ \E t \in Later(db.now) : db' = Update(db, id, payload, t)
    /\ UNCHANGED <<apiVars, page, ui, calls>>

TableDelete(id) ==
    /\ remaining > 0
    /\ remaining' = remaining - 1
    /\ \E t \in Later(db.now) : db' = Delete(db, id, t)
    /\ UNCHANGED <<apiVars, page, ui, calls>>

\* The table alone, right after the migration; the server plays no part, so
\* its clock is held at one value.
TableInit == Start({"enveloped"}, MaxStatements) /\ now = 0 /\ NoDashboard

TableNext ==
    \/ \E payload \in InsertPayloads : TableInsert(payload)
    \/ \E id \in RowIds(db) : \E payload \in UpdatePayloads :
            TableUpdate(id, payload)
    \/ \E id \in RowIds(db) : TableDelete(id)

TableSpec == TableInit /\ [][TableNext]_vars

\* ------------------------------------------------ the Dashboard: requests
\* A supabase request of the Dashboard.  `editingTask` is the editingTask of
\* the render whose handler sent it: the handler's closure reads that value
\* after its await, whatever the state has become.  A request is "sent"
\* until the table has run it or it has failed, then "answered" until the
\* code after the await has run.
Call(kind, id, payload, editingTask) ==
    [kind |-> kind, id |-> id, payload |-> payload,
     editingTask |-> editingTask, phase |-> "sent", ok |-> FALSE,
     data |-> <<>>]

\* The request fetchTasks() sends.
Fetch == Call("select", Undefined, EmptyPayload, Null)

Answered(call, ok, data) ==
    [call EXCEPT !.phase = "answered", !.ok = ok, !.data = data]

\* `cs` without its c-th request.
Dropped(cs, c) == SubSeq(cs, 1, c - 1) \o SubSeq(cs, c + 1, Len(cs))

\* toast({ title, ... })
Toast(u, title) == [u EXCEPT !.toast = title]

\* A closeEditDialog that leaves the task being edited in place.
ClosedAs(u) == [u EXCEPT !.isEditDialogOpen = FALSE]

\* closeEditDialog (closeEditModal in the second variant)
Closed(u) == [u EXCEPT !.isEditDialogOpen = FALSE, !.editingTask = Null]

\* The titles typed into the form of a new task and into the edit dialog.
FormTitles == {Str(<<>>), Str(<<" ">>), Str(<<" ", "a", " ">>)}
EditTitles == {Str(<<>>), Str(<<"b">>)}

\* What onOpenChange of the Dialog is called with: the page has no
\* DialogTrigger, so the Dialog only ever asks to close (Escape, the overlay,
\* its close button).
OpenChanges == {FALSE}

\* now() of the transaction of a request of the Dashboard: the requests of one
\* page are separate round trips, so each reads a later clock than the one
\* before (TableSpec covers statements that read the same clock).
Elapsed(t) == {t + 1}

\* The forms are rendered once the first fetchTasks() has ended (before that
\* the page shows "Carregando..."); the form of the edit dialog is rendered
\* when the dialog is open on a task.
Rendered == ~ui.loading
EditFormRendered ==
    Rendered /\ ui.isEditDialogOpen /\ ui.editingTask # Null

\* ------------------------------------------------- the Dashboard: actions
\* onChange of the title of the new task.
ChangeTitle(title) ==
    /\ Rendered
    /\ ui' = [ui EXCEPT !.newTask.title = title]
    /\ UNCHANGED <<apiVars, remaining, page, db, calls>>

\* createTask without its check of the title.
createTaskAs ==
    /\ Rendered
    /\ remaining > 0
    /\ remaining' = remaining - 1
    /\ calls' = Append(calls,
            Call("insert", Undefined,
                 Payload(ui.newTask.title, ui.newTask.description,
                         ui.newTask.status, ui.newTask.priority,
                         Undefined, Undefined),
                 ui.editingTask))
    /\ UNCHANGED <<apiVars, page, db, ui>>

\* createTask: a title that trims to "" is refused with a toast; otherwise
\* the form is inserted as it stands.
createTask ==
    /\ Rendered
    /\ IF Falsy(Trim(ui.newTask.title))
       THEN /\ ui' = Toast(ui, "Título obrigatório")
            /\ UNCHANGED <<remaining, calls>>
       ELSE /\ remaining > 0
            /\ remaining' = remaining - 1
            /\ calls' = Append(calls,
                    Call("insert", Undefined,
                         Payload(ui.newTask.title, ui.newTask.description,
                                 ui.newTask.status, ui.newTask.priority,
                                 Undefined, Undefined),
                         ui.editingTask))
            /\ UNCHANGED ui
    /\ UNCHANGED <<apiVars, page, db>>

\* handleEditTask (handleEditClick in the second variant): the Edit button
\* of a listed task.
handleEditTask(task) ==
    /\ Rendered
    /\ ui' = [ui EXCEPT !.editingTask = task, !.isEditDialogOpen = TRUE]
    /\ UNCHANGED <<apiVars, remaining, page, db, calls>>

\* onChange of the title in the edit dialog.
ChangeEditingTitle(title) ==
    /\ EditFormRendered
    /\ ui' = [ui EXCEPT !.editingTask.title = title]
    /\ UNCHANGED <<apiVars, remaining, page, db, calls>>

\* closeEditDialog as the onClick of Cancelar (and of Fechar).
closeEditDialog ==
    /\ Rendered
    /\ ui.isEditDialogOpen
    /\ ui' = Closed(ui)
    /\ UNCHANGED <<apiVars, remaining, page, db, calls>>

\* handleDialogOpenChange, the onOpenChange of the Dialog.
handleDialogOpenChange(open) ==
    /\ Rendered
    /\ ui' = IF open THEN [ui EXCEPT !.isEditDialogOpen = TRUE]
             ELSE Closed(ui)
    /\ UNCHANGED <<apiVars, remaining, page, db, calls>>

\* updateTask, up to its await: the update of the four fields of the task
\* being edited.
updateTask ==
    /\ EditFormRendered
    /\ remaining > 0
    /\ remaining' = remaining - 1
    /\ calls' = Append(calls,
            Call("update", ui.editingTask.id,
                 Payload(ui.editingTask.title, ui.editingTask.description,
                         ui.editingTask.status, ui.editingTask.priority,
                         Undefined, Undefined),
                 ui.editingTask))
    /\ UNCHANGED <<apiVars, page, db, ui>>

\* deleteTask(id), up to its await: the Delete button of a listed task.
deleteTask(id) ==
    /\ Rendered
    /\ remaining > 0
    /\ remaining' = remaining - 1
    /\ calls' = Append(calls, Call("delete", id, EmptyPayload, ui.editingTask))
    /\ UNCHANGED <<apiVars, page, db, ui>>

\* The table runs the statement of a request and answers it.
Respond(c) ==
    /\ calls[c].phase = "sent"
    /\ \E t \in Elapsed(db.now) :
        LET call == calls[c]
            d == CASE call.kind = "insert" -> Insert(db, call.payload, t)
                   [] call.kind = "update" ->
                            Update(db, call.id, call.payload, t)
                   [] call.kind = "delete" -> Delete(db, call.id, t)
                   [] call.kind = "select" -> db
        IN  /\ db' = d
            /\ \E data \in IF call.kind = "select" THEN Selected(db)
                          ELSE {<<>>} :
                    calls' = [calls EXCEPT
                                ![c] = Answered(call,
                                                call.kind = "select"
                                                    \/ d.last.ok,
                                                data)]
    /\ UNCHANGED <<apiVars, remaining, page, ui>>

\* A request fails before the table runs it: its answer is an error.
Fail(c) ==
    /\ calls[c].phase = "sent"
    /\ calls' = [calls EXCEPT ![c] = Answered(calls[c], FALSE, <<>>)]
    /\ UNCHANGED <<apiVars, remaining, page, db, ui>>

\* A handler that reloads whatever the answer of its request.
ReloadAs(rest, ok) == Append(rest, Fetch)

\* The requests in flight once the handler of a mutation has ended: the
\* fetchTasks() at the end of its try block runs unless `throw error` has
\* jumped to the catch block.
Reload(rest, ok) == IF ok THEN Append(rest, Fetch) ELSE rest

\* The code after the await of the handler that sent the request.
Settle(c) ==
    LET call == calls[c]
        rest == Dropped(calls, c)
    IN  /\ call.phase = "answered"
        /\ CASE call.kind = "select" ->
                    \* fetchTasks
                    /\ ui' = IF call.ok
                             THEN [ui EXCEPT !.tasks = call.data,
                                             !.loading = FALSE]
                             ELSE [Toast(ui, "Erro ao carregar tarefas")
                                    EXCEPT !.loading = FALSE]
                    /\ calls' = rest
             [] call.kind = "insert" ->
                    \* createTask
                    /\ ui' = IF call.ok
                             THEN [Toast(ui, "Tarefa criada!")
                                    EXCEPT !.newTask = EmptyForm]
                             ELSE Toast(ui, "Erro ao criar tarefa")
                    /\ calls' = Reload(rest, call.ok)
             [] call.kind = "update" ->
                    \* updateTask
                    /\ ui' = IF call.ok
                             THEN Closed(Toast(ui, "Tarefa atualizada!"))
                             ELSE Toast(ui, "Erro ao atualizar tarefa")
                    /\ calls' = Reload(rest, call.ok)
             [] call.kind = "delete" ->
                    \* deleteTask; only the first variant closes the dialog,
                    \* when the editingTask of its closure has the id
                    /\ ui' = IF ~call.ok
                             THEN Toast(ui, "Erro ao excluir tarefa")
                             ELSE IF /\ page = "first"
                                     /\ call.editingTask # Null
                                     /\ call.editingTask.id = call.id
                                  THEN Closed(Toast(ui, "Tarefa excluída"))
                                  ELSE Toast(ui, "Tarefa excluída")
                    /\ calls' = Reload(rest, call.ok)
        /\ UNCHANGED <<apiVars, remaining, page, db>>

\* The Dashboard mounts on an empty table: useEffect calls fetchTasks().
DashInit ==
    /\ Start({"enveloped"}, MaxMutations)
    /\ now = 0
    /\ page \in {"first", "second"}
    /\ db = EmptyTable
    /\ ui = InitialState
    /\ calls = <<Fetch>>

DashNext ==
    \/ \E title \in FormTitles : ChangeTitle(title)
    \/ createTask
    \/ \E i \in 1..Len(ui.tasks) : handleEditTask(ui.tasks[i])
    \/ \E title \in EditTitles : ChangeEditingTitle(title)
    \/ closeEditDialog
    \/ \E open \in OpenChanges : handleDialogOpenChange(open)
    \/ updateTask
    \/ \E i \in 1..Len(ui.tasks) : deleteTask(ui.tasks[i].id)
    \/ \E c \in 1..Len(calls) : Respond(c)
    \/ \E c \in 1..Len(calls) : Fail(c)
    \/ \E c \in 1..Len(calls) : Settle(c)

DashSpec == DashInit /\ [][DashNext]_vars

\* ------------------------------------------------- the Dashboard: filters
\* A toLowerCase that leaves every letter as it is.
toLowerCaseAs(s) == s

\* String.prototype.toLowerCase, on the letters the titles are written in.
toLowerCase(s) ==
    [i \in 1..Len(s) |->
        CASE s[i] = "A" -> "a"
          [] s[i] = "B" -> "b"
          [] OTHER -> s[i]]

\* String.prototype.includes
includes(s, term) ==
    \E k \in 0..(Len(s) - Len(term)) : SubSeq(s, k + 1, k + Len(term)) = term

\* The callback of tasks.filter: the first variant compares the priority;
\* the second requires matchesSearch && matchesStatus && matchesPriority.
Matches(task, u, p) ==
    IF p = "first"
    THEN task.priority = u.priorityFilter
    ELSE LET term == toLowerCase(u.searchTerm.str)
             matchesSearch ==
                IF Falsy(u.searchTerm) THEN TRUE
                ELSE \/ includes(toLowerCase(task.title.str), term)
                     \/ IF task.description \in {Null, Undefined}
                        THEN FALSE
                        ELSE includes(toLowerCase(task.description.str),
                                      term)
             matchesStatus ==
                u.statusFilter = ALL \/ task.status = u.statusFilter
             matchesPriority ==
                u.priorityFilter = ALL \/ task.priority = u.priorityFilter
         IN  matchesSearch /\ matchesStatus /\ matchesPriority

\* Array.prototype.filter with that callback: the elements are visited in
\* order and the ones the callback accepts are pushed to the result.
RECURSIVE Filter(_, _, _)
Filter(list, u, p) ==
    IF list = <<>> THEN <<>>
    ELSE (IF Matches(Head(list), u, p) THEN <<Head(list)>> ELSE <<>>)
            \o Filter(Tail(list), u, p)

\* filteredTasks of the render of the current state.
filteredTasks ==
    IF page = "first" /\ ui.priorityFilter = ALL
    THEN ui.tasks
    ELSE Filter(ui.tasks, ui, page)

\* The values of the filter selects and the terms typed into the search box.
PriorityFilters == {ALL} \cup validPriorities
StatusFilters == {ALL} \cup validStatuses
SearchTerms == {Str(<<>>), Str(<<"B">>), Str(<<"a", "b">>)}

\* The lists of tasks filtered: up to MaxTasks rows with their own ids, of
\* titles and descriptions the search terms tell apart.
Texts ==
    {[title |-> Str(<<"A", "b">>), description |-> Null],
     [title |-> Str(<<"a">>), description |-> Str(<<"B">>)],
     [title |-> Str(<<"a">>), description |-> Null]}

TaskLists ==
    UNION {[1..n -> Texts \X {PENDING, COMPLETED} \X {LOW, HIGH}]
            : n \in 0..MaxTasks}

Loaded(i, shape) ==
    Row(RandomUUID(i), shape[1].title, shape[1].description, shape[2],
        shape[3], 0, 0)

\* onValueChange of the priority select.
setPriorityFilter(value) ==
    /\ ui' = [ui EXCEPT !.priorityFilter = value]
    /\ UNCHANGED <<apiVars, remaining, page, db, calls>>

\* onValueChange of the status select (second variant).
setStatusFilter(value) ==
    /\ page = "second"
    /\ ui' = [ui EXCEPT !.statusFilter = value]
    /\ UNCHANGED <<apiVars, remaining, page, db, calls>>

\* onChange of the search box (second variant).
setSearchTerm(term) ==
    /\ page = "second"
    /\ ui' = [ui EXCEPT !.searchTerm = term]
    /\ UNCHANGED <<apiVars, remaining, page, db, calls>>

\* A Dashboard that has loaded a list of tasks, its filters untouched.
FilterInit ==
    /\ Start({"enveloped"}, MaxTasks)
    /\ now = 0
    /\ page \in {"first", "second"}
    /\ db = EmptyTable
    /\ calls = <<>>
    /\ \E shapes \in TaskLists :
        ui = [InitialState EXCEPT
                !.loading = FALSE,
                !.tasks = [i \in 1..Len(shapes) |-> Loaded(i, shapes[i])]]

FilterNext ==
    \/ \E value \in PriorityFilters : setPriorityFilter(value)
    \/ \E value \in StatusFilters : setStatusFilter(value)
    \/ \E term \in SearchTerms : setSearchTerm(term)

FilterSpec == FilterInit /\ [][FilterNext]_vars

\* ------------------------------------------------------------------ claims
\* What the claims say of a value, stated without the handlers' own tests.
AllWhiteSpace(v) == \A i \in 1..Len(v.str) : v.str[i] \in WhiteSpace

\* A title that is absent, not a string, empty or whitespace-only.
BadTitle(v) == v = Undefined \/ ~IsString(v) \/ AllWhiteSpace(v)

\* A status or priority that is provided and outside its enumeration.
OutsideStatus(v) == v # Undefined /\ v \notin {PENDING, IN_PROGRESS, COMPLETED}
OutsidePriority(v) == v # Undefined /\ v \notin {LOW, MEDIUM, HIGH}

Live(ts, id) == \E i \in 1..Len(ts) : ts[i].id = id

\* C1: in the enveloped build, POST /tasks whose title is absent, not a
\* string, empty or whitespace-only is answered 400 and the array of tasks
\* after the request is the array before it.
C1_BadTitleRejected ==
    [][(variant = "enveloped" /\ req'.method = "POST"
            /\ BadTitle(req'.body.title))
        => (res'.status = 400 /\ ~res'.success /\ tasks' = tasks)]_vars

\* C1's case: a whitespace-only title has been answered 400.
C1_Witness ==
    /\ variant = "enveloped"
    /\ req.method = "POST"
    /\ req.body.title = Str(<<" ">>)
    /\ res.status = 400

\* C2: in the enveloped build, POST /tasks with a valid title and a provided
\* status or priority outside its enumeration (null included) is answered 400
\* and the array of tasks is unchanged.
C2_BadEnumRejected ==
    [][(variant = "enveloped" /\ req'.method = "POST"
            /\ ~BadTitle(req'.body.title)
            /\ (OutsideStatus(req'.body.status)
                    \/ OutsidePriority(req'.body.priority)))
        => (res'.status = 400 /\ ~res'.success /\ tasks' = tasks)]_vars

\* C2's case: a null status, sent with a valid title and a description that is
\* no string, has been answered 400.
C2_Witness ==
    /\ variant = "enveloped"
    /\ req.method = "POST"
    /\ req.body.title = Str(<<" ", "a", " ">>)
    /\ req.body.status = Null
    /\ req.body.description = Num(7)
    /\ res.status = 400

\* C3: in every reachable state the status of every task is pending,
\* in_progress or completed and its priority is low, medium or high.
C3_EnumeratedFields ==
    \A i \in 1..Len(tasks) :
        /\ tasks[i].status \in {PENDING, IN_PROGRESS, COMPLETED}
        /\ tasks[i].priority \in {LOW, MEDIUM, HIGH}

\* C4: PUT /tasks/:id for an id no task has is answered 404 whatever the body
\* holds, and the array of tasks is unchanged.
C4_UnknownIdNotFound ==
    [][(req'.method = "PUT" /\ ~Live(tasks, req'.id))
        => (res'.status = 404 /\ tasks' = tasks)]_vars

\* C4's case: a PUT whose body holds a bad title was answered 404.
C4_Witness ==
    /\ req.method = "PUT"
    /\ req.body.title = Num(7)
    /\ ~Live(tasks, req.id)
    /\ res.status = 404

\* The first task of `ts` with the id: the task a request for the id targets.
Target(ts, id) ==
    CHOOSE i \in 1..Len(ts) :
        ts[i].id = id /\ \A j \in 1..(i - 1) : ts[j].id # id

StatusOnly(body) ==
    /\ body.status # Undefined
    /\ \A k \in {"title", "description", "priority", "id", "createdAt"} :
            body[k] = Undefined

\* C5 as stated: PATCH /tasks/:id on a task with the body {status: "completed"}
\* is answered 200 with the task, its status completed.
C5_PatchUpdates ==
    (req.method = "PATCH" /\ req.body.status = COMPLETED /\ Live(tasks, req.id))
        => (/\ res.status = 200
            /\ res.data = <<tasks[Target(tasks, req.id)]>>
            /\ res.data[1].status = COMPLETED)

\* C5 as amended: PATCH /tasks/:id matches no route; it is answered 404 "route
\* not found" and changes nothing.  The PUT with the body
\* {status: "completed"} on a task is answered 200 with the task, its status
\* completed and its id, title, description, priority and createdAt as before.
C5_PatchUnrouted ==
    [][/\ req'.method = "PATCH"
            => (/\ res'.status = 404
                /\ res'.message = "Rota não encontrada"
                /\ res'.data = <<>>
                /\ tasks' = tasks)
       /\ (req'.method = "PUT" /\ StatusOnly(req'.body)
                /\ req'.body.status = COMPLETED /\ Live(tasks, req'.id))
            => LET i == Target(tasks, req'.id)
               IN  /\ res'.status = 200
                   /\ res'.data = <<tasks'[i]>>
                   /\ tasks'[i].status = COMPLETED
                   /\ \A k \in {"id", "title", "description", "priority",
                                "createdAt"} : tasks'[i][k] = tasks[i][k]]_vars

\* C5's case: a PATCH with {status: "completed"} for a task was answered 404.
C5_Witness ==
    /\ req.method = "PATCH"
    /\ req.body.status = COMPLETED
    /\ Live(tasks, req.id)
    /\ res.status = 404

\* C6: a successful PUT whose body holds only status leaves the task's title,
\* description and priority as they were and sets updatedAt to an instant not
\* before the task's previous updatedAt.
C6_StatusOnlyUpdate ==
    [][(req'.method = "PUT" /\ res'.status = 200 /\ StatusOnly(req'.body))
        => LET i == Target(tasks, req'.id)
           IN  /\ tasks'[i].title = tasks[i].title
               /\ tasks'[i].description = tasks[i].description
               /\ tasks'[i].priority = tasks[i].priority
               /\ ParseISO(tasks'[i].updatedAt)
                    >= ParseISO(tasks[i].updatedAt)]_vars

\* C6's case: the enveloped build has updated the status of a seeded task at
\* an instant after its previous updatedAt.
C6_Witness ==
    /\ variant = "enveloped"
    /\ req.method = "PUT"
    /\ StatusOnly(req.body)
    /\ res.status = 200
    /\ res.data[1].status = COMPLETED
    /\ res.data[1].title = SeedTitle1
    /\ ParseISO(res.data[1].updatedAt) > ParseISO(res.data[1].createdAt)

\* A body every provided field of which is valid.
ValidPutBody(body) ==
    /\ body.title = Undefined \/ ~BadTitle(body.title)
    /\ body.description = Undefined \/ IsString(body.description)
    /\ ~OutsideStatus(body.status)
    /\ ~OutsidePriority(body.priority)

\* C7: after a successful PUT with a valid body, each of title, description,
\* status and priority the body supplies has the supplied value (title and
\* description trimmed) and each it does not supply has its previous value.
C7_SuppliedFieldsMerged ==
    [][(req'.method = "PUT" /\ res'.status = 200 /\ ValidPutBody(req'.body))
        => LET i == Target(tasks, req'.id)
               body == req'.body
           IN  /\ tasks'[i].title =
                    IF body.title = Undefined THEN tasks[i].title
                    ELSE Trim(body.title)
               /\ tasks'[i].description =
                    IF body.description = Undefined THEN tasks[i].description
                    ELSE Trim(body.description)
               /\ tasks'[i].status =
                    IF body.status = Undefined THEN tasks[i].status
                    ELSE body.status
               /\ tasks'[i].priority =
                    IF body.priority = Undefined THEN tasks[i].priority
                    ELSE body.priority]_vars

\* C8: no PUT /tasks/:id, whatever its body holds, changes the id or the
\* createdAt of the task it targets.
C8_IdAndCreatedAtKept ==
    [][(req'.method = "PUT" /\ Live(tasks, req'.id))
        => LET i == Target(tasks, req'.id)
           IN  /\ Len(tasks') = Len(tasks)
               /\ tasks'[i].id = tasks[i].id
               /\ tasks'[i].createdAt = tasks[i].createdAt]_vars

Ids(ts) == {ts[i].id : i \in 1..Len(ts)}

UniqueIds(ts) ==
    \A i, j \in 1..Len(ts) : i # j => ts[i].id # ts[j].id

\* C9: in the enveloped build no two tasks of the array share an id, an id
\* leaves the array only by a DELETE, and the id a successful POST returns is
\* the id of no task that is or ever was in the array.
C9_FreshUniqueIds ==
    [][variant = "enveloped"
        => /\ UniqueIds(tasks) /\ UniqueIds(tasks')
           /\ Ids(tasks) \subseteq Ids(tasks') \cup deleted'
           /\ (req'.method = "POST" /\ res'.status = 201)
                => /\ Len(res'.data) = 1
                   /\ res'.data[1].id \notin Ids(tasks) \cup deleted
                   /\ res'.data[1].id \in Ids(tasks')]_vars

\* C9's case: a POST succeeded after a task had been deleted.
C9_Witness ==
    /\ variant = "enveloped"
    /\ req.method = "POST"
    /\ res.status = 201
    /\ deleted # {}

\* C10: in the enveloped build DELETE /tasks/:id for the id of a task is
\* answered 200 with the task as it was stored and removes it; every later
\* DELETE or GET for that id is answered 404.
C10_DeletedStaysGone ==
    [][variant = "enveloped"
        => /\ (req'.method = "DELETE" /\ Live(tasks, req'.id))
                => /\ res'.status = 200
                   /\ res'.data = <<tasks[Target(tasks, req'.id)]>>
                   /\ ~Live(tasks', req'.id)
                   /\ req'.id \in deleted'
           /\ (req'.method \in {"DELETE", "GET"} /\ req'.id \in deleted)
                => res'.status = 404]_vars

\* C10's case: a GET for the id of a deleted task was answered 404.
C10_Witness ==
    /\ variant = "enveloped"
    /\ req.method = "GET"
    /\ req.id \in deleted
    /\ res.status = 404

\* C11: in the enveloped build, the GET /tasks/:id that immediately follows a
\* successful POST /tasks and asks for the id the POST returned is answered
\* 200 with a task equal in every field to the task the POST returned.
C11_CreateThenGet ==
    [][(variant = "enveloped" /\ req.method = "POST" /\ res.status = 201
            /\ req'.method = "GET" /\ req'.id = res.data[1].id)
        => (/\ res'.status = 200
            /\ res'.success
            /\ res'.data = res.data
            /\ \A k \in {"id", "title", "description", "status", "priority",
                         "createdAt", "updatedAt"} :
                    res'.data[1][k] = res.data[1][k])]_vars

\* C11's case: the task a POST created from " a " has been read back by its id.
C11_Witness ==
    /\ variant = "enveloped"
    /\ req.method = "GET"
    /\ req.id = RandomUUID(3)
    /\ res.status = 200
    /\ res.data[1].title = Str(<<"a">>)
    /\ res.data[1].id = RandomUUID(3)

\* A PUT body with a provided title that is no non-blank string, or a
\* provided status or priority outside its enumeration.
BadUpdate(body) ==
    \/ body.title # Undefined /\ BadTitle(body.title)
    \/ OutsideStatus(body.status)
    \/ OutsidePriority(body.priority)

\* C12: PUT /tasks/:id on a task with a provided title that is empty,
\* whitespace-only or not a string, or a provided status or priority outside
\* its enumeration, is answered 400 and the array of tasks, the targeted
\* task's updatedAt included, is unchanged.
C12_BadUpdateRejected ==
    [][(req'.method = "PUT" /\ Live(tasks, req'.id) /\ BadUpdate(req'.body))
        => (res'.status = 400 /\ tasks' = tasks)]_vars

\* C13: in every reachable state of the enveloped build, the seeded state
\* included, the updatedAt of every task is an instant not before its
\* createdAt.
C13_UpdatedNotBeforeCreated ==
    variant = "enveloped"
        => \A i \in 1..Len(tasks) :
                ParseISO(tasks[i].updatedAt) >= ParseISO(tasks[i].createdAt)

\* C13's case: a task a POST created has been updated at a later instant,
\* beside a seeded task whose two timestamps differ.
C13_Witness ==
    /\ variant = "enveloped"
    /\ \E i \in 1..Len(tasks) :
            /\ tasks[i].id = RandomUUID(3)
            /\ ParseISO(tasks[i].updatedAt) > ParseISO(tasks[i].createdAt)
    /\ \E i \in 1..Len(tasks) :
            /\ tasks[i].id = RandomUUID(1)
            /\ ParseISO(tasks[i].updatedAt) > ParseISO(tasks[i].createdAt)

\* The tasks of `ts` are in descending order of createdAt: none precedes a
\* task with a strictly later createdAt.
CreatedAtDescending(ts) ==
    \A i, j \in 1..Len(ts) :
        i < j => ParseISO(ts[i].createdAt) >= ParseISO(ts[j].createdAt)

\* C14: in the enveloped build, in every reachable state, the seeded state
\* included, GET /tasks is answered 200 with all the tasks of the array, in
\* descending order of createdAt.
C14_ListNewestFirst ==
    [][(variant = "enveloped" /\ req'.method = "GET" /\ req'.id = Undefined)
        => (/\ res'.status = 200
            /\ res'.data = tasks
            /\ CreatedAtDescending(res'.data))]_vars

\* C15 as stated: in the enveloped build, POST /tasks with a valid title and
\* neither status nor priority in the body is answered 201 with a task whose
\* status is pending and whose priority is medium, and that task is then in
\* the array of tasks.
C15_DefaultsApplied ==
    [][(variant = "enveloped" /\ req'.method = "POST"
            /\ ~BadTitle(req'.body.title)
            /\ req'.body.status = Undefined
            /\ req'.body.priority = Undefined)
        => (/\ res'.status = 201
            /\ Len(res'.data) = 1
            /\ res'.data[1].status = PENDING
            /\ res'.data[1].priority = MEDIUM
            /\ \E i \in 1..Len(tasks') : tasks'[i] = res'.data[1])]_vars

\* C15 as amended: the same, for a body whose description is absent or a
\* string; a description that is null or no string is answered 500 and no
\* task is added.
C15_DefaultsAppliedToValidBody ==
    [][(variant = "enveloped" /\ req'.method = "POST"
            /\ ~BadTitle(req'.body.title)
            /\ req'.body.status = Undefined
            /\ req'.body.priority = Undefined)
        => IF req'.body.description = Undefined
                \/ IsString(req'.body.description)
           THEN /\ res'.status = 201
                /\ Len(res'.data) = 1
                /\ res'.data[1].status = PENDING
                /\ res'.data[1].priority = MEDIUM
                /\ \E i \in 1..Len(tasks') : tasks'[i] = res'.data[1]
           ELSE /\ res'.status = 500
                /\ tasks' = tasks]_vars

\* C15's case: a POST carrying only a title and a description was answered
\* 201 with the defaults.
C15_Witness ==
    /\ variant = "enveloped"
    /\ req.method = "POST"
    /\ req.body.status = Undefined
    /\ req.body.priority = Undefined
    /\ req.body.description = Str(<<" ", "d", " ">>)
    /\ res.status = 201
    /\ res.data[1].status = PENDING
    /\ res.data[1].priority = MEDIUM
    /\ tasks[1] = res.data[1]

\* A description that is present and no string (null included).
BadDescription(v) == v # Undefined /\ ~IsString(v)

\* C16: in the enveloped build, a POST /tasks whose body holds a bad field
\* (a bad or missing title, a status or priority outside its enumeration, a
\* description that is present and no string), and a PUT /tasks/:id on a task
\* whose body holds one, is answered 400, never 500.
C16_BadInputIs400 ==
    [][/\ (variant = "enveloped" /\ req'.method = "POST"
            /\ (BadTitle(req'.body.title)
                    \/ BadDescription(req'.body.description)
                    \/ OutsideStatus(req'.body.status)
                    \/ OutsidePriority(req'.body.priority)))
            => res'.status = 400
       /\ (variant = "enveloped" /\ req'.method = "PUT"
            /\ Live(tasks, req'.id)
            /\ (BadUpdate(req'.body)
                    \/ BadDescription(req'.body.description)))
            => res'.status = 400]_vars

\* C17: in the enveloped build, a request answered 500 carries only the
\* generic message, without data, and leaves the array of tasks as it was
\* before the request.
C17_FaultLeavesStore ==
    [][(variant = "enveloped" /\ res'.status = 500)
        => (/\ res'.message = "Erro interno do servidor"
            /\ res'.data = <<>>
            /\ ~res'.success
            /\ tasks' = tasks)]_vars

\* C17's case: a PUT on a task with a description that is a number has been
\* answered 500.
C17_Witness ==
    /\ variant = "enveloped"
    /\ req.method = "PUT"
    /\ req.body.description = Num(7)
    /\ res.status = 500
    /\ Live(tasks, req.id)

\* C18: under any interleaving of concurrent requests a handler's lookup,
\* validation and mutation are one atomic step: at most one handler is
\* between its findIndex and its end, and the index it found is still the
\* index findIndex gives for its id when it writes or splices at it.
C18_HandlersAtomic ==
    /\ \A h \in 1..Len(handlers) :
            handlers[h].pc = "found"
                => handlers[h].taskIndex
                        = FindIndex(tasks, handlers[h].request.id)
    /\ \A g, h \in 1..Len(handlers) :
            (handlers[g].pc = "found" /\ handlers[h].pc = "found") => g = h

\* C18's case: a handler stands between its findIndex and its write, on a
\* task an earlier DELETE moved to index 0, while the other received request
\* has already been handled.
C18_Witness ==
    /\ Len(handlers) = 2
    /\ \E g, h \in 1..2 :
            /\ handlers[g].pc = "done"
            /\ handlers[g].request.method = "DELETE"
            /\ Len(tasks) = 1
            /\ handlers[h].pc = "found"
            /\ handlers[h].request.method = "PUT"
            /\ handlers[h].taskIndex = 0

\* C19: in the enveloped build GET /tasks/:id is answered 200 with the stored
\* task when a task has the id and 404 when none has, and in both cases the
\* array of tasks is unchanged.
C19_GetById ==
    [][(variant = "enveloped" /\ req'.method = "GET" /\ req'.id # Undefined)
        => (/\ tasks' = tasks
            /\ IF Live(tasks, req'.id)
               THEN /\ res'.status = 200
                    /\ res'.success
                    /\ res'.data = <<tasks[Target(tasks, req'.id)]>>
               ELSE /\ res'.status = 404
                    /\ ~res'.success
                    /\ res'.data = <<>>)]_vars

\* C19's case: the second seeded task, updated by an earlier PUT, has been
\* read by its id.
C19_Witness ==
    /\ variant = "enveloped"
    /\ req.method = "GET"
    /\ req.id = RandomUUID(2)
    /\ res.status = 200
    /\ res.data[1].id = RandomUUID(2)
    /\ res.data[1].status = COMPLETED

\* `ts` without its k-th element.
Without(ts, k) == SubSeq(ts, 1, k - 1) \o SubSeq(ts, k + 1, Len(ts))

\* C20: a successful POST adds exactly the task it returns and leaves the
\* others as they were; a successful PUT changes only the task it targets; a
\* successful DELETE removes only the task it targets; in all three the other
\* tasks keep their fields and their order.
C20_OneRecordTouched ==
    [][/\ (req'.method = "POST" /\ res'.status = 201)
            => \E k \in 1..Len(tasks') :
                    /\ tasks'[k] = res'.data[1]
                    /\ Without(tasks', k) = tasks
       /\ (req'.method = "PUT" /\ res'.status = 200)
            => /\ Len(tasks') = Len(tasks)
               /\ \A j \in 1..Len(tasks) :
                    j # Target(tasks, req'.id) => tasks'[j] = tasks[j]
       /\ (req'.method = "DELETE" /\ res'.status = 200)
            => /\ Len(tasks') = Len(tasks) - 1
               /\ Without(tasks, Target(tasks, req'.id)) = tasks']_vars

\* C20's case: a DELETE has removed the first seeded task from between the
\* task a POST added and the second seeded task.
C20_Witness ==
    /\ req.method = "DELETE"
    /\ req.id = RandomUUID(1)
    /\ res.status = 200
    /\ Len(tasks) = 2
    /\ tasks[1].id = RandomUUID(3)
    /\ tasks[2].id = RandomUUID(2)

\* C28: in every state of the enveloped build the title of every task is a
\* string that is not empty and neither begins nor ends with whitespace.
C28_TitlesTrimmed ==
    variant = "enveloped"
        => \A i \in 1..Len(tasks) :
                /\ IsString(tasks[i].title)
                /\ tasks[i].title.str # <<>>
                /\ tasks[i].title.str[1] \notin WhiteSpace
                /\ tasks[i].title.str[Len(tasks[i].title.str)] \notin WhiteSpace

\* C28's case: a POST has stored the title " a " as "a" and a PUT has set the
\* title of a seeded task from " a " to "a".
C28_Witness ==
    /\ variant = "enveloped"
    /\ Len(tasks) = 3
    /\ tasks[1].id = RandomUUID(3)
    /\ tasks[1].title = Str(<<"a">>)
    /\ \E i \in 2..3 : tasks[i].title = Str(<<"a">>)

\* C22: every update of a row of public.tasks, whatever its payload holds,
\* sets the row's updated_at to the time of the update; the updated_at of a
\* row never decreases from one update to the next; and the row's created_at
\* is what the payload gives it, or what it was: the trigger does not alter
\* it.
C22_TriggerRefreshes ==
    [][(db'.last.op = "update" /\ db'.last.ok /\ db' # db)
        => \A i \in 1..Len(db.rows) :
                db.rows[i].id = db'.last.id
                    => /\ db'.rows[i].updated_at = db'.now
                       /\ db'.now \in Later(db.now)
                       /\ db.rows[i].id \in db.updated
                            => db'.rows[i].updated_at
                                    >= db.rows[i].updated_at
                       /\ db'.rows[i].created_at
                            = IF db'.last.payload.created_at = Undefined
                              THEN db.rows[i].created_at
                              ELSE db'.last.payload.created_at.num]_vars

\* C22's case: a row updated before has been updated with a payload that
\* carries an updated_at of the past, and holds the time of the update.
C22_Witness ==
    /\ db.last.op = "update"
    /\ db.last.ok
    /\ db.last.payload.updated_at = Num(0)
    /\ db.last.id \in db.updated
    /\ \E i \in 1..Len(db.rows) :
            /\ db.rows[i].id = db.last.id
            /\ db.rows[i].updated_at = db.now
            /\ db.rows[i].updated_at > db.rows[i].created_at


\* C21: with the table behind it, neither createTask nor updateTask of the
\* Dashboard persists a title that is empty or only whitespace: every row of
\* the table has a title that trims to a non-empty string.
C21_NoBlankTitlePersisted ==
    \A i \in 1..Len(db.rows) : ~Falsy(Trim(db.rows[i].title))


\* The rows of a list, as a set.
Listed(list) == {list[i] : i \in 1..Len(list)}

\* C23: once every request in flight has completed, the tasks the Dashboard
\* shows are the rows of the table, whatever the order in which the answers
\* arrived: when a successful reload is the last request to complete, the
\* list it leaves is the table's, so no late answer of an older reload has
\* replaced the list of a newer one.
C23_ReloadsConverge ==
    [][(/\ Len(calls) = 1
        /\ calls' = <<>>
        /\ calls[1].kind = "select"
        /\ calls[1].ok)
       => Listed(ui'.tasks) = Listed(db'.rows)]_vars


\* The step is the code after the await of the c-th request, whose answer
\* was a success, and the request was of the given kind.
Succeeded(c, kind) ==
    /\ calls[c].kind = kind
    /\ calls[c].phase = "answered"
    /\ calls[c].ok
    /\ calls' = Append(Dropped(calls, c), Fetch)

\* C24: in the first variant, once deleteTask(X) has succeeded and the code
\* after its await has run, the edit dialog is not open on X, also when the
\* user opened it on X while the delete was in flight.
C24_DialogNotOnDeletedTask ==
    [][\A c \in 1..Len(calls) :
        (page = "first" /\ Succeeded(c, "delete"))
        => ~(/\ ui'.isEditDialogOpen
             /\ ui'.editingTask # Null
             /\ ui'.editingTask.id = calls[c].id)]_vars


\* The requests that persist a change.
Mutations == {"insert", "update", "delete"}

\* The step is the code after the await of the c-th request: the request
\* has left the requests in flight, and at most one request has joined them.
Handled(c) ==
    /\ calls[c].phase = "answered"
    /\ calls' # calls
    /\ Len(calls') \in {Len(calls) - 1, Len(calls)}
    /\ SubSeq(calls', 1, Len(calls) - 1) = Dropped(calls, c)

\* C25: createTask, updateTask and deleteTask each send exactly one request
\* that persists the change; fetchTasks is called after it exactly when
\* that request succeeded; when it failed no reload is sent, the list of
\* tasks is unchanged and the form state is kept (newTask is not reset, the
\* edit dialog and editingTask stay as they were).
C25_OneRequestReloadIffSuccess ==
    [][/\ remaining' # remaining
            => /\ Len(calls') = Len(calls) + 1
               /\ SubSeq(calls', 1, Len(calls)) = calls
               /\ calls'[Len(calls')].kind \in Mutations
               /\ calls'[Len(calls')].phase = "sent"
       /\ \A c \in 1..Len(calls) :
            (calls[c].kind \in Mutations /\ Handled(c))
            => IF calls[c].ok
               THEN calls' = Append(Dropped(calls, c), Fetch)
               ELSE /\ calls' = Dropped(calls, c)
                    /\ ui'.tasks = ui.tasks
                    /\ ui'.newTask = ui.newTask
                    /\ ui'.editingTask = ui.editingTask
                    /\ ui'.isEditDialogOpen = ui.isEditDialogOpen]_vars

\* A failed update has been handled: the dialog is still open on the task,
\* and no request is in flight.
C25_Witness ==
    /\ ui.toast = "Erro ao atualizar tarefa"
    /\ ui.isEditDialogOpen
    /\ ui.editingTask # Null
    /\ calls = <<>>


\* C26: createTask with a title that is empty or only whitespace sends no
\* insert and no reload, and leaves newTask and tasks as they were: the step
\* that shows "Título obrigatório" had such a title and changes nothing
\* else, and no insert is ever sent with such a title in the form.
C26_BlankTitleRefused ==
    [][/\ (ui'.toast = "Título obrigatório" /\ ui.toast # ui'.toast)
            => /\ Falsy(Trim(ui.newTask.title))
               /\ calls' = calls
               /\ db' = db
               /\ ui'.newTask = ui.newTask
               /\ ui'.tasks = ui.tasks
       /\ (Len(calls') > Len(calls) /\ calls'[Len(calls')].kind = "insert")
            => ~Falsy(Trim(ui.newTask.title))]_vars

\* The form with a title of one space has been submitted and refused.
C26_Witness ==
    /\ ui.toast = "Título obrigatório"
    /\ ui.newTask.title = Str(<<" ">>)


\* C27: in both variants of the Dashboard, in every state reached by Edit
\* clicks, Cancel, open changes of the dialog, and updates and deletes that
\* succeed or fail, a closed edit dialog has no task being edited.  (A
\* state is what a handler leaves: the state updates one handler makes in a
\* row are applied together.)
C27_ClosedDialogHasNoTask ==
    ~ui.isEditDialogOpen => ui.editingTask = Null

\* An update has succeeded and its handler has closed the dialog it was
\* sent from.
C27_Witness ==
    /\ ui.toast = "Tarefa atualizada!"
    /\ ~ui.isEditDialogOpen
    /\ ui.editingTask = Null
    /\ db.updated # {}


\* Two characters are the same letter, whatever their case.
SameLetter(x, y) ==
    x = y \/ {x, y} \in {{"a", "A"}, {"b", "B"}}

\* `s` contains `term`, case apart: at some offset every character of the
\* term is the letter of `s` at that place.
ContainsIgnoringCase(s, term) ==
    \E k \in 0..(Len(s) - Len(term)) :
        \A i \in 1..Len(term) : SameLetter(s[k + i], term[i])

\* The task passes every active filter of the state.
PassesFilters(task) ==
    /\ ui.priorityFilter = ALL \/ task.priority = ui.priorityFilter
    /\ ui.statusFilter = ALL \/ task.status = ui.statusFilter
    /\ \/ ui.searchTerm.str = <<>>
       \/ ContainsIgnoringCase(task.title.str, ui.searchTerm.str)
       \/ /\ task.description.type = "string"
          /\ ContainsIgnoringCase(task.description.str, ui.searchTerm.str)

\* C29: for every list of tasks and every setting of the filters,
\* filteredTasks is exactly the tasks that pass every active filter, in the
\* order of the list: with every filter at "all" and no search term it is
\* the list itself; otherwise a task is in it exactly when its priority is
\* the priority filter's, its status is the status filter's, and its title
\* or description contains the search term, case apart.
C29_FilteredIsMatchingSubsequence ==
    LET shown == {i \in 1..Len(ui.tasks) : PassesFilters(ui.tasks[i])}
        n == Len(filteredTasks)
    IN  /\ n = Cardinality(shown)
        /\ \E f \in [1..n -> shown] :
            /\ \A j, k \in 1..n : j < k => f[j] < f[k]
            /\ \A k \in 1..n : filteredTasks[k] = ui.tasks[f[k]]
        /\ (/\ ui.priorityFilter = ALL
            /\ ui.statusFilter = ALL
            /\ ui.searchTerm.str = <<>>) => filteredTasks = ui.tasks

\* The second variant searches "B" in two tasks and shows only the second,
\* which has the letter in lower case in its title or in its description.
C29_Witness ==
    /\ page = "second"
    /\ ui.searchTerm = Str(<<"B">>)
    /\ Len(ui.tasks) = 2
    /\ filteredTasks = <<ui.tasks[2]>>
    /\ ui.priorityFilter # ALL

====
